---- MODULE Spec2Model ----
(***************************************************************************)
(* rdups: find duplicated files below a directory.                         *)
(*                                                                         *)
(* main walks the tree, groups the files by size, hashes every file that   *)
(* shares its size with another one on a pool of worker threads fed by a   *)
(* filler thread, collects the (checksum, path) results into a map and     *)
(* prints the entries that hold more than one path.                        *)
(*                                                                         *)
(* A path is the index of its entry in the walk order.  The content of a   *)
(* file is a sequence of bytes whose length is the file's size.            *)
(***************************************************************************)
EXTENDS Integers, Sequences, FiniteSets, TLC

\* ---- bounds of the model ------------------------------------------------
MaxFiles == 3        \* entries below the root
MaxSize == 2         \* largest file size, in bytes
NumBytes == 2        \* distinct byte values
NumWorkers == 2      \* worker threads of the pool (32 in the program)

Bytes == 0 .. (NumBytes - 1)
Workers == 1 .. NumWorkers
NoWorker == 0

VARIABLES
    root,            \* what the command-line argument names
    tree,            \* the regular files below the root, in walk order
    staterr,         \* paths whose entry.metadata() failed in the walk
    pc,              \* position of the main thread
    files,           \* result of walk_files: <<size, path>> pairs
    group_by_size,   \* result of group_files_by_size: size -> paths
    fpc,             \* position of the filler thread
    files_to_check,  \* the filler's list, result of filter_file_list
    fi,              \* index of the next entry of files_to_check to send
    in_chan,         \* candidate channel (in_tx -> in_rx)
    lock,            \* holder of the mutex around in_rx, or NoWorker
    wpc,             \* position of every worker thread
    wpath,           \* the path a worker is processing
    handles,         \* per worker: the files it holds open
    out_chan,        \* result channel (out_tx clones -> out_rx)
    groups,          \* the aggregator's map: checksum -> paths
    dups,            \* result of duplicated_files, the printed groups
    pulled,          \* per path: how often a worker received it
    calls,           \* per path: how often blake3_checksum was called on it
    openfail,        \* paths whose File::open failed
    short,           \* paths whose io::copy stopped before the end of file
    results          \* every (checksum, path) a worker has sent

vars == <<root, tree, staterr, pc, files, group_by_size, fpc, files_to_check, fi,
          in_chan, lock, wpc, wpath, handles, out_chan, groups, dups,
          pulled, calls, openfail, short, results>>

\* ---- helpers ------------------------------------------------------------
Range(s) == { s[i] : i \in 1 .. Len(s) }

EmptyMap == [k \in {} |-> <<>>]

RECURSIVE SeqsOfLen(_)
SeqsOfLen(n) ==
    IF n = 0 THEN { <<>> }
    ELSE { Append(s, b) : s \in SeqsOfLen(n - 1), b \in Bytes }

\* A regular file: its size and its content.
FileEntries ==
    UNION { { [size |-> n, content |-> c] : c \in SeqsOfLen(n) } : n \in 0 .. MaxSize }

RECURSIVE TreesOfLen(_)
TreesOfLen(n) ==
    IF n = 0 THEN { <<>> }
    ELSE { Append(t, e) : t \in TreesOfLen(n - 1), e \in FileEntries }

Trees == UNION { TreesOfLen(n) : n \in 0 .. MaxFiles }

Paths == 1 .. Len(tree)

\* as entry_push, with insert(0, v) in place of push(v)
entry_push_front(m, k, v) ==
    IF k \in DOMAIN m THEN [m EXCEPT ![k] = <<v>> \o @]
    ELSE m @@ (k :> <<v>>)

\* HashMap / BTreeMap entry(k).or_default().push(v)
entry_push(m, k, v) ==
    IF k \in DOMAIN m THEN [m EXCEPT ![k] = Append(@, v)]
    ELSE m @@ (k :> <<v>>)

\* ---- pure functions of the program ---------------------------------------

\* walk_files: every regular file of non-zero length, in walk order.
RECURSIVE walk_loop(_, _, _)
walk_loop(t, i, acc) ==
    IF i > Len(t) THEN acc
    ELSE IF t[i].size # 0
         THEN walk_loop(t, i + 1, Append(acc, <<t[i].size, i>>))
         ELSE walk_loop(t, i + 1, acc)

\* as walk_files, without the test of file_len
walk_files_all(t) == [i \in 1 .. Len(t) |-> <<t[i].size, i>>]

walk_files(t) == walk_loop(t, 1, <<>>)

\* group_files_by_size
RECURSIVE size_loop(_, _, _)
size_loop(fs, i, acc) ==
    IF i > Len(fs) THEN acc
    ELSE size_loop(fs, i + 1, entry_push(acc, fs[i][1], fs[i][2]))

\* as group_files_by_size, with insert(size, vec![path]) in place of push
RECURSIVE size_loop_insert(_, _, _)
size_loop_insert(fs, i, acc) ==
    IF i > Len(fs) THEN acc
    ELSE size_loop_insert(fs, i + 1,
             [k \in DOMAIN acc \cup {fs[i][1]} |->
                 IF k = fs[i][1] THEN <<fs[i][2]>> ELSE acc[k]])

group_files_by_size_insert(fs) == size_loop_insert(fs, 1, EmptyMap)

group_files_by_size(fs) == size_loop(fs, 1, EmptyMap)

\* filter_file_list: the BTreeMap is iterated by ascending size; the size
\* groups of more than one path are kept and flattened.
keep_group_any(paths) == Len(paths) > 0

keep_group(paths) == Len(paths) > 1

RECURSIVE flatten_loop(_, _, _)
flatten_loop(m, keys, acc) ==
    IF keys = {} THEN acc
    ELSE LET k == CHOOSE x \in keys : \A y \in keys : x <= y
         IN  flatten_loop(m, keys \ {k},
                          IF keep_group(m[k]) THEN acc \o m[k] ELSE acc)

filter_file_list(m) == flatten_loop(m, DOMAIN m, <<>>)

\* The digest of a byte stream.  BLAKE3 is taken to be collision free: the
\* bytes are folded into a number, as the digits 1 .. NumBytes of the base
\* NumBytes + 1, so that two streams have one digest only if they are equal.
RECURSIVE hasher_update(_, _, _)
hasher_update(h, bytes, i) ==
    IF i > Len(bytes) THEN h
    ELSE hasher_update(h * (NumBytes + 1) + bytes[i] + 1, bytes, i + 1)

hasher_finalize(bytes) == hasher_update(0, bytes, 1)

\* duplicated_files: copy the entries that hold more than one path.
is_dup_any(paths) == Len(paths) > 0

is_dup(paths) == Len(paths) > 1

RECURSIVE push_all(_, _, _, _)
push_all(d, sum, paths, i) ==
    IF i > Len(paths) THEN d
    ELSE push_all(entry_push(d, sum, paths[i]), sum, paths, i + 1)

RECURSIVE dups_loop(_, _, _)
dups_loop(m, keys, d) ==
    IF keys = {} THEN d
    ELSE LET sum == CHOOSE x \in keys : TRUE
         IN  dups_loop(m, keys \ {sum},
                       IF is_dup(m[sum]) THEN push_all(d, sum, m[sum], 1) ELSE d)

duplicated_files(m) == dups_loop(m, DOMAIN m, EmptyMap)

\* ---- channel ends --------------------------------------------------------
WorkerExited(w) == wpc[w] \in {"exit_ok", "exit_err"}

\* out_tx was dropped by main after the spawn loop; a clone lives in every
\* worker thread until the thread ends.
out_tx_alive == \E w \in Workers : ~WorkerExited(w)

\* in_tx lives in the filler's closure.
in_tx_alive == fpc \in {"filter", "send"}

\* in_rx lives in the Arc held by lx in group_files_by_checksum and by every
\* worker thread.
in_rx_alive ==
    \/ pc \in {"aggregate", "join"}
    \/ \E w \in Workers : ~WorkerExited(w)

\* out_rx is a local of group_files_by_checksum.
out_rx_alive == pc \in {"aggregate", "join"}

\* ---- initial state -------------------------------------------------------
Init ==
    /\ root \in {"dir", "file", "missing"}
    /\ tree \in Trees
    /\ root = "missing" => tree = <<>>
    /\ root = "file" => Len(tree) = 1
    /\ staterr = {}
    /\ pc = "walk"
    /\ files = <<>>
    /\ group_by_size = EmptyMap
    /\ fpc = "none"
    /\ files_to_check = <<>>
    /\ fi = 1
    /\ in_chan = <<>>
    /\ lock = NoWorker
    /\ wpc = [w \in Workers |-> "none"]
    /\ wpath = [w \in Workers |-> 0]
    /\ handles = [w \in Workers |-> 0]
    /\ out_chan = <<>>
    /\ groups = EmptyMap
    /\ dups = EmptyMap
    /\ pulled = [p \in Paths |-> 0]
    /\ calls = [p \in Paths |-> 0]
    /\ openfail = {}
    /\ short = {}
    /\ results = {}

mainVars == <<pc, files, group_by_size, groups, dups>>
fillerVars == <<fpc, files_to_check, fi>>
workerVars == <<lock, wpc, wpath, handles>>
histVars == <<pulled, calls, openfail, short, results>>

\* ---- main thread ---------------------------------------------------------

\* main: walk_files(path)? succeeded.  The root that cannot be read is an
\* Err entry of the walk, which filter_map(|e| e.ok()) drops.
WalkOk ==
    /\ pc = "walk"
    /\ files' = walk_files(tree)
    /\ pc' = "group_by_size"
    /\ UNCHANGED <<root, tree, staterr, group_by_size, groups, dups, fillerVars,
                   in_chan, workerVars, out_chan, histVars>>

\* main: entry.metadata()? failed for a file of the walk; the error is
\* returned by walk_files and by main.
WalkErr ==
    /\ pc = "walk"
    /\ \E p \in Paths : staterr' = {p}
    /\ pc' = "exit_err"
    /\ UNCHANGED <<root, tree, files, group_by_size, groups, dups, fillerVars,
                   in_chan, workerVars, out_chan, histVars>>

GroupBySize ==
    /\ pc = "group_by_size"
    /\ group_by_size' = group_files_by_size(files)
    /\ pc' = "spawn"
    /\ UNCHANGED <<root, tree, staterr, files, groups, dups, fillerVars,
                   in_chan, workerVars, out_chan, histVars>>

\* group_files_by_checksum up to the receive loop: the channels, the worker
\* threads, drop(out_tx), the filler thread.
Spawn ==
    /\ pc = "spawn"
    /\ wpc' = [w \in Workers |-> "lock"]
    /\ fpc' = "filter"
    /\ pc' = "aggregate"
    /\ UNCHANGED <<root, tree, staterr, files, group_by_size, groups, dups,
                   files_to_check, fi, in_chan, lock, wpath, handles, out_chan,
                   histVars>>

\* while let Ok((sum, path)) = out_rx.recv(): one result
AggRecv ==
    /\ pc = "aggregate"
    /\ out_chan # <<>>
    /\ groups' = entry_push(groups, Head(out_chan)[1], Head(out_chan)[2])
    /\ out_chan' = Tail(out_chan)
    /\ UNCHANGED <<root, tree, staterr, pc, files, group_by_size, dups, fillerVars,
                   in_chan, workerVars, histVars>>

\* out_rx.recv() is Err: the channel is empty and every sender is dropped.
recv_empty == out_chan = <<>>

recv_disconnected == out_chan = <<>> /\ ~out_tx_alive

AggLoopEnd ==
    /\ pc = "aggregate"
    /\ recv_disconnected
    /\ pc' = "join"
    /\ UNCHANGED <<root, tree, staterr, files, group_by_size, groups, dups, fillerVars,
                   in_chan, workerVars, out_chan, histVars>>

\* for t in threads { t.join().expect(..)?; }: a worker returned Err; the
\* function returns it, lx is dropped, the filler is not joined.
JoinErr ==
    /\ pc = "join"
    /\ \A w \in Workers : WorkerExited(w)
    /\ \E w \in Workers : wpc[w] = "exit_err"
    /\ pc' = "checksum_err"
    /\ UNCHANGED <<root, tree, staterr, files, group_by_size, groups, dups, fillerVars,
                   in_chan, workerVars, out_chan, histVars>>

\* every worker returned Ok and so did the filler
JoinOk ==
    /\ pc = "join"
    /\ \A w \in Workers : wpc[w] = "exit_ok"
    /\ fpc = "done"
    /\ pc' = "report"
    /\ UNCHANGED <<root, tree, staterr, files, group_by_size, groups, dups, fillerVars,
                   in_chan, workerVars, out_chan, histVars>>

\* main: duplicated_files and the print loop
Report ==
    /\ pc = "report"
    /\ dups' = duplicated_files(groups)
    /\ pc' = "exit_ok"
    /\ UNCHANGED <<root, tree, staterr, files, group_by_size, groups, fillerVars,
                   in_chan, workerVars, out_chan, histVars>>

\* main returns the error of group_files_by_checksum; the process ends.
ExitErr ==
    /\ pc = "checksum_err"
    /\ pc' = "exit_err"
    /\ UNCHANGED <<root, tree, staterr, files, group_by_size, groups, dups, fillerVars,
                   in_chan, workerVars, out_chan, histVars>>

ProcessAlive == pc \notin {"exit_ok", "exit_err"}

\* ---- filler thread -------------------------------------------------------
FillerFilter ==
    /\ ProcessAlive
    /\ fpc = "filter"
    /\ files_to_check' = filter_file_list(group_by_size)
    /\ fpc' = "send"
    /\ UNCHANGED <<root, tree, staterr, mainVars, fi, in_chan, workerVars, out_chan, histVars>>

\* in_tx.send(f) succeeded
FillerSend ==
    /\ ProcessAlive
    /\ fpc = "send"
    /\ fi <= Len(files_to_check)
    /\ in_rx_alive
    /\ in_chan' = Append(in_chan, files_to_check[fi])
    /\ fi' = fi + 1
    /\ UNCHANGED <<root, tree, staterr, mainVars, fpc, files_to_check, workerVars,
                   out_chan, histVars>>

\* in_tx.send(f) failed: expect("All worker threads are gone") panics
FillerPanic ==
    /\ ProcessAlive
    /\ fpc = "send"
    /\ fi <= Len(files_to_check)
    /\ ~in_rx_alive
    /\ fpc' = "panicked"
    /\ UNCHANGED <<root, tree, staterr, mainVars, files_to_check, fi, in_chan, workerVars,
                   out_chan, histVars>>

\* the list is sent; the closure ends and drops in_tx
FillerDone ==
    /\ ProcessAlive
    /\ fpc = "send"
    /\ fi > Len(files_to_check)
    /\ fpc' = "done"
    /\ UNCHANGED <<root, tree, staterr, mainVars, files_to_check, fi, in_chan, workerVars,
                   out_chan, histVars>>

\* ---- worker threads ------------------------------------------------------

\* lx.lock(); the mutex is never poisoned, no thread panics holding it.
WorkerLock(w) ==
    /\ ProcessAlive
    /\ wpc[w] = "lock"
    /\ lock = NoWorker
    /\ lock' = w
    /\ wpc' = [wpc EXCEPT ![w] = "recv"]
    /\ UNCHANGED <<root, tree, staterr, mainVars, fillerVars, in_chan, wpath, handles,
                   out_chan, histVars>>

\* the mutex after the pull: drop(rx) releases it before the checksum
lock_kept_after_pull(w) == w

lock_after_pull(w) == NoWorker

\* rx.recv() returned a path; drop(rx)
WorkerRecv(w) ==
    /\ ProcessAlive
    /\ wpc[w] = "recv"
    /\ in_chan # <<>>
    /\ wpath' = [wpath EXCEPT ![w] = Head(in_chan)]
    /\ in_chan' = Tail(in_chan)
    /\ pulled' = [pulled EXCEPT ![Head(in_chan)] = @ + 1]
    /\ lock' = lock_after_pull(w)
    /\ wpc' = [wpc EXCEPT ![w] = "hash"]
    /\ UNCHANGED <<root, tree, staterr, mainVars, fillerVars, handles, out_chan,
                   calls, openfail, short, results>>

\* rx.recv() is Err: the channel is empty and in_tx is dropped; return Ok(())
WorkerHangup(w) ==
    /\ ProcessAlive
    /\ wpc[w] = "recv"
    /\ in_chan = <<>>
    /\ ~in_tx_alive
    /\ lock' = NoWorker
    /\ wpc' = [wpc EXCEPT ![w] = "exit_ok"]
    /\ UNCHANGED <<root, tree, staterr, mainVars, fillerVars, in_chan, wpath, handles,
                   out_chan, histVars>>

\* File::open adds a handle; the File is dropped when blake3_checksum returns
open_file(n) == n + 1

file_kept(n) == n

drop_file(n) == n - 1

\* blake3_checksum: File::open(path)? succeeded
WorkerOpen(w) ==
    /\ ProcessAlive
    /\ wpc[w] = "hash"
    /\ calls' = [calls EXCEPT ![wpath[w]] = @ + 1]
    /\ handles' = [handles EXCEPT ![w] = open_file(@)]
    /\ wpc' = [wpc EXCEPT ![w] = "copy"]
    /\ UNCHANGED <<root, tree, staterr, mainVars, fillerVars, in_chan, lock, wpath, out_chan,
                   pulled, openfail, short, results>>

\* blake3_checksum: File::open(path)? failed; the worker returns the error
WorkerOpenErr(w) ==
    /\ ProcessAlive
    /\ wpc[w] = "hash"
    /\ calls' = [calls EXCEPT ![wpath[w]] = @ + 1]
    /\ openfail' = openfail \cup {wpath[w]}
    /\ wpc' = [wpc EXCEPT ![w] = "exit_err"]
    /\ wpath' = [wpath EXCEPT ![w] = 0]
    /\ UNCHANGED <<root, tree, staterr, mainVars, fillerVars, in_chan, lock, handles,
                   out_chan, pulled, short, results>>

\* what the worker does with the bytes io::copy delivered: the result of
\* io::copy is discarded, the digest of the bytes read so far is the checksum
blake3_checksum(content, n) == hasher_finalize(SubSeq(content, 1, n))

\* blake3_checksum: io::copy read n bytes of the file (all of them, or fewer
\* when a read failed), the file is closed; tx.send((sum, path)).
WorkerCopySend(w) ==
    /\ ProcessAlive
    /\ wpc[w] = "copy"
    /\ \E n \in 0 .. tree[wpath[w]].size :
        LET sum == blake3_checksum(tree[wpath[w]].content, n)
        IN  /\ short' = IF n < tree[wpath[w]].size THEN short \cup {wpath[w]} ELSE short
            /\ IF out_rx_alive
               THEN /\ out_chan' = Append(out_chan, <<sum, wpath[w]>>)
                    /\ results' = results \cup {<<sum, wpath[w]>>}
                    /\ wpc' = [wpc EXCEPT ![w] = "lock"]
               ELSE /\ UNCHANGED <<out_chan, results>>
                    /\ wpc' = [wpc EXCEPT ![w] = "exit_ok"]
    /\ wpath' = [wpath EXCEPT ![w] = 0]
    /\ handles' = [handles EXCEPT ![w] = drop_file(@)]
    /\ UNCHANGED <<root, tree, staterr, mainVars, fillerVars, in_chan, lock,
                   pulled, calls, openfail>>

Next ==
    \/ WalkOk
    \/ WalkErr
    \/ GroupBySize
    \/ Spawn
    \/ AggRecv
    \/ AggLoopEnd
    \/ JoinErr
    \/ JoinOk
    \/ Report
    \/ ExitErr
    \/ FillerFilter
    \/ FillerSend
    \/ FillerPanic
    \/ FillerDone
    \/ \E w \in Workers : WorkerLock(w)
    \/ \E w \in Workers : WorkerRecv(w)
    \/ \E w \in Workers : WorkerHangup(w)
    \/ \E w \in Workers : WorkerOpen(w)
    \/ \E w \in Workers : WorkerOpenErr(w)
    \/ \E w \in Workers : WorkerCopySend(w)

Spec == Init /\ [][Next]_vars

TypeOK ==
    /\ lock \in Workers \cup {NoWorker}
    /\ fi \in 1 .. (Len(files_to_check) + 1)

\* ---- properties ----------------------------------------------------------

\* the files the walk yielded
Walked == { files[i][2] : i \in 1 .. Len(files) }

SameContent(a, b) == tree[a].content = tree[b].content

\* a and b are members of one printed group
Grouped(a, b) == \E s \in DOMAIN dups : {a, b} \subseteq Range(dups[s])

InGroups(sum, p) == sum \in DOMAIN groups /\ p \in Range(groups[sum])

\* walked files whose size another walked file has too
SharedSize == { p \in Walked : \E q \in Walked \ {p} : tree[q].size = tree[p].size }

\* no other file of the tree has the size of p
SizeUnique(p) == \A q \in Paths \ {p} : tree[q].size # tree[p].size

NoDuplicates(s) == \A i, j \in 1 .. Len(s) : s[i] = s[j] => i = j

\* the paths the filler has put on the candidate channel so far
Sent == { files_to_check[i] : i \in 1 .. (fi - 1) }

RunComplete == pc \in {"exit_ok", "exit_err"}

\* the receive loop of group_files_by_checksum is over
LoopEnded == pc \in {"join", "report", "checksum_err", "exit_ok"}

\* C1: when the run is complete, any two walked files of identical content
\* (and so of identical size) are members of one printed group.
Completeness ==
    RunComplete =>
        \A a, b \in Walked : (a # b /\ SameContent(a, b)) => Grouped(a, b)

\* C2: no printed group holds two paths of different content.
Soundness ==
    \A s \in DOMAIN dups : \A a, b \in Range(dups[s]) : SameContent(a, b)

\* C3: a file of unique size is never sent to the workers, never pulled and
\* never hashed; when every file's size is unique nothing is sent and nothing
\* is printed.
SizeFilterExact ==
    /\ \A p \in Paths : SizeUnique(p) =>
          /\ p \notin Sent
          /\ p \notin Range(in_chan)
          /\ pulled[p] = 0
          /\ calls[p] = 0
    /\ (\A p \in Paths : SizeUnique(p)) =>
          /\ Sent = {}
          /\ in_chan = <<>>
          /\ DOMAIN dups = {}

\* C3 witness: the run printed its groups, a walked file of unique size was
\* left alone while other files were hashed.
SizeFilterExactWitness ==
    /\ pc = "exit_ok"
    /\ \E p \in Walked : SizeUnique(p)
    /\ \E q \in Paths : calls[q] > 0

\* C4: when the run is complete, no path a worker failed to read is in a
\* printed group, and any two readable files of identical content are members
\* of one printed group.
NoFalseSingletons ==
    RunComplete =>
        /\ \A p \in openfail \cup short : \A s \in DOMAIN dups : p \notin Range(dups[s])
        /\ \A a, b \in Walked \ (openfail \cup short) :
              (a # b /\ SameContent(a, b)) => Grouped(a, b)

\* C5: a failure to open a path does not stop the pool: when the receive loop
\* is over, every other candidate of the filter has been hashed and its
\* result is in the aggregator's map.
PoolSurvivesFailure ==
    LoopEnded =>
        \A p \in SharedSize \ openfail :
            /\ calls[p] > 0
            /\ \E r \in results : r[2] = p /\ InGroups(r[1], p)

\* C6: the mutex is held for one pull only: its holder is in recv, and no
\* worker that computes a checksum holds it.
LockOnlyForPull ==
    \A w \in Workers :
        /\ lock = w => wpc[w] = "recv"
        /\ wpc[w] \in {"hash", "copy"} => lock # w

\* C6 witness: two workers read their files at the same time.
LockOnlyForPullWitness ==
    \E v, w \in Workers : v # w /\ wpc[v] = "copy" /\ wpc[w] = "copy"

\* C7: once the receive loop is over every worker has exited, the result
\* channel is empty and every result a worker sent is in the map.
AggregatorTermination ==
    LoopEnded =>
        /\ \A w \in Workers : WorkerExited(w)
        /\ out_chan = <<>>
        /\ \A r \in results : InGroups(r[1], r[2])

\* C7 witness: the loop is over after workers have sent results.
AggregatorTerminationWitness ==
    /\ pc = "join"
    /\ Cardinality(results) >= 2

\* C8: no candidate is pulled or hashed twice, and when the run is complete
\* every path of the filter's list was pulled once and hashed once.
HashedExactlyOnce ==
    /\ \A p \in Paths : pulled[p] <= 1 /\ calls[p] <= 1
    /\ RunComplete =>
          \A p \in Range(files_to_check) : pulled[p] = 1 /\ calls[p] = 1

\* C9: the printed groups are exactly the entries of the aggregator's map
\* that hold two paths or more, each with its checksum and its paths unchanged.
ExtractorExact ==
    pc = "exit_ok" =>
        /\ DOMAIN dups = { s \in DOMAIN groups : Len(groups[s]) >= 2 }
        /\ \A s \in DOMAIN dups : dups[s] = groups[s]

\* C9 witness: the map held an entry of two paths and an entry of one.
ExtractorExactWitness ==
    /\ pc = "exit_ok"
    /\ \E s \in DOMAIN groups : Len(groups[s]) >= 2
    /\ \E s \in DOMAIN groups : Len(groups[s]) = 1

\* C10: the list of the size filter holds every walked path whose size
\* another walked file shares, once each, and nothing else.
FilterExact ==
    fpc \in {"send", "done", "panicked"} =>
        /\ NoDuplicates(files_to_check)
        /\ Range(files_to_check) = SharedSize

\* C10 witness: the filter kept some walked paths and dropped another.
FilterExactWitness ==
    /\ fpc = "send"
    /\ files_to_check # <<>>
    /\ Walked \ Range(files_to_check) # {}

\* C11: a worker sends a (checksum, path) result only for a path whose whole
\* content was read: no path whose read stopped early has a result.
WholeContentOnly ==
    \A r \in results : r[2] \notin short

\* C12: a file whose metadata cannot be read is skipped and the walk goes on:
\* such an error never ends the run with a failure.
MetadataErrorSkipped ==
    staterr # {} => pc # "exit_err"

\* C13: a root that does not exist or is no directory fails the run at
\* startup: no stage after the walk is entered and nothing is printed.
FatalRootError ==
    root \in {"missing", "file"} =>
        /\ pc \in {"walk", "exit_err"}
        /\ DOMAIN dups = {}

\* the printed groups, as sets of paths
Reported == { Range(dups[s]) : s \in DOMAIN dups }

\* the sets of two or more walked files of one size and one content
ContentClass(p) ==
    { q \in SharedSize : tree[q].size = tree[p].size /\ SameContent(p, q) }

ExpectedGroups ==
    { g \in { ContentClass(p) : p \in SharedSize } : Cardinality(g) >= 2 }

\* C14: for a tree whose files are all read in full, the printed groups, as
\* sets of paths, are a function of the tree alone: whatever the interleaving
\* of the workers and the order of arrival of the results, every run prints
\* the same groups.
GroupingOrderIndependent ==
    (pc = "exit_ok" /\ openfail = {} /\ short = {}) => Reported = ExpectedGroups

\* C14 witness: a group was printed whose paths arrived in another order than
\* the walk's.
GroupingOrderIndependentWitness ==
    /\ pc = "exit_ok"
    /\ openfail = {}
    /\ short = {}
    /\ \E s \in DOMAIN dups : Len(dups[s]) >= 2 /\ dups[s][1] > dups[s][2]

\* the paths held by a map from keys to lists of paths
Held(m) == UNION { Range(m[k]) : k \in DOMAIN m }

\* C15: a file of zero bytes is left out by the walk: it is in no size group,
\* is never in the filter's list or on the candidate channel, is never pulled
\* or hashed, and is in no printed group.
ZeroByteExcluded ==
    \A p \in Paths : tree[p].size = 0 =>
        /\ p \notin Walked
        /\ p \notin Held(group_by_size)
        /\ p \notin Range(files_to_check)
        /\ p \notin Range(in_chan)
        /\ pulled[p] = 0
        /\ calls[p] = 0
        /\ p \notin Held(groups)
        /\ p \notin Held(dups)

\* C15 witness: a run over a tree with two empty files and a file that is
\* not empty has ended.
ZeroByteExcludedWitness ==
    /\ pc = "exit_ok"
    /\ \E p, q \in Paths : p # q /\ tree[p].size = 0 /\ tree[q].size = 0
    /\ Walked # {}

\* in a list of paths, files of one size are in the order of the walk
WalkOrderWithinSize(s) ==
    \A i, j \in 1 .. Len(s) :
        (i < j /\ tree[s[i]].size = tree[s[j]].size) => s[i] < s[j]

\* C16: within a size group the path seen first by the walk is put on the
\* candidate channel before every later path of that size: the filter's list
\* and the channel keep the order of the walk within a size, and when a path
\* has been sent so has every earlier walked path of its size.
FirstSeenFirst ==
    /\ WalkOrderWithinSize(files_to_check)
    /\ WalkOrderWithinSize(in_chan)
    /\ \A p \in Sent : \A q \in Walked :
          (q < p /\ tree[q].size = tree[p].size) => q \in Sent

\* C16 witness: the first file of a size and a later one are both on the
\* channel.
FirstSeenFirstWitness ==
    \E i, j \in 1 .. Len(in_chan) :
        i < j /\ tree[in_chan[i]].size = tree[in_chan[j]].size

\* the number of files the process holds open
RECURSIVE OpenIn(_)
OpenIn(ws) ==
    IF ws = {} THEN 0
    ELSE LET w == CHOOSE x \in ws : TRUE IN handles[w] + OpenIn(ws \ {w})

OpenFiles == OpenIn(Workers)

\* C17: a worker holds at most the one file it is reading and has closed it
\* before it asks for the next candidate: the process never holds more files
\* open than the pool has workers, and a worker that waits for the mutex or
\* for a candidate, or has ended, holds none.
HandlesBounded ==
    /\ OpenFiles <= NumWorkers
    /\ \A w \in Workers :
          /\ handles[w] <= 1
          /\ wpc[w] \in {"none", "lock", "recv", "hash", "exit_ok", "exit_err"}
                => handles[w] = 0

\* C17 witness: every worker of the pool holds a file open while a worker
\* has already been through the loop once.
HandlesBoundedWitness ==
    /\ OpenFiles = NumWorkers
    /\ results # {}

\* the paths of a size that the table holds and the filler has not sent
Pending(sz) == Range(group_by_size[sz]) \ Sent

WalkedOfSize(sz) == { p \in Walked : tree[p].size = sz }

\* C18, as claimed: the size table holds at most one path that is not yet
\* emitted per size, and holds one only while exactly one file of that size
\* has been seen.
AtMostOnePending ==
    \A sz \in DOMAIN group_by_size :
        /\ Cardinality(Pending(sz)) <= 1
        /\ Pending(sz) # {} => Cardinality(WalkedOfSize(sz)) = 1

\* C18, amended: the size table holds, per size, every walked path of that
\* size, once each; an entry holds one path only if one file of that size
\* was walked, and that path is never in the filter's list.
TableHoldsAllOfSize ==
    pc \notin {"walk", "group_by_size"} =>
        /\ DOMAIN group_by_size = { tree[p].size : p \in Walked }
        /\ \A sz \in DOMAIN group_by_size :
              /\ NoDuplicates(group_by_size[sz])
              /\ Range(group_by_size[sz]) = WalkedOfSize(sz)
              /\ Len(group_by_size[sz]) = 1 =>
                    /\ Cardinality(WalkedOfSize(sz)) = 1
                    /\ group_by_size[sz][1] \notin Range(files_to_check)

\* C18 witness: before anything is sent the table holds an entry of two
\* paths or more and an entry of one path.
TableHoldsAllOfSizeWitness ==
    /\ pc = "aggregate"
    /\ fpc = "send"
    /\ fi = 1
    /\ \E sz \in DOMAIN group_by_size : Len(group_by_size[sz]) >= 2
    /\ \E sz \in DOMAIN group_by_size : Len(group_by_size[sz]) = 1

\* Every thread that can take a step is run in the end; no fairness among the
\* threads is assumed.
FairSpec == Spec /\ WF_vars(Next)

\* C19: under fair scheduling a call of group_files_by_checksum returns, with
\* Ok or with Err, and by then every worker thread has ended.
ChecksumTerminates ==
    (pc = "aggregate") ~>
        (pc \in {"report", "checksum_err"} /\ \A w \in Workers : WorkerExited(w))

\* C19 witness: the function has returned the error of workers that all
\* ended early on a file they could not open, the filler still sending.
ChecksumTerminatesWitness ==
    /\ pc = "checksum_err"
    /\ \A w \in Workers : wpc[w] = "exit_err"
    /\ fpc = "send"

\* C20: in_tx.send never fails in the filler: the thread never panics with
\* "All worker threads are gone".
FillerSendNeverFails ==
    fpc # "panicked"
====
